---- MODULE Spec2Model ----
(***************************************************************************)
(* Bridging round state between rounds (src/bridge_state.rs).              *)
(*                                                                         *)
(* A Bridged cell holds one RoundState behind a reader/writer lock and one *)
(* AtomicTask wake slot.  PriorView::update replaces the state and then    *)
(* notifies the slot; LatterView::get registers the calling task in the    *)
(* slot and then takes a read guard on the state.                          *)
(*                                                                         *)
(* Producer threads and consumer tasks are processes with a program        *)
(* counter each.  Every lock operation, every field of the state copied    *)
(* by the assignment in update, every register and every notify is one     *)
(* step, so that all interleavings of update and get are explored.         *)
(***************************************************************************)
EXTENDS Naturals, Sequences, FiniteSets

\* ------------------------------------------------------------------ bounds

\* Total number of update calls in one behaviour.
MaxUpdates == 2
\* Number of get calls one consumer task makes in one behaviour.
MaxGets == 2
\* Number of read guards one consumer task keeps at the same time.
MaxGuards == 2

\* ------------------------------------------------------------- processes

\* Threads that call PriorView::update.
Producers == {"P", "Q"}
\* Tasks that call LatterView::get.
Tasks == {"A", "B"}
\* The empty AtomicTask slot.
NoTask == "none"

\* ---------------------------------------------------------------- values

\* Option<T>: None is the empty sequence, Some(x) the one-element sequence.
None == <<>>
Some(x) == <<x>>

\* The fields of round::State, in declaration order.
Fields == <<"prevote_ghost", "finalized", "estimate", "completable">>

\* The state the test starts from: nothing known yet.
InitialState ==
  [prevote_ghost |-> None, finalized |-> None, estimate |-> None,
   completable |-> FALSE]

\* The state the test's producer thread pushes: block 1 finalized.
TestUpdated ==
  [prevote_ghost |-> Some(5), finalized |-> Some(1), estimate |-> Some(3),
   completable |-> TRUE]

\* The RoundState values a caller passes to bridge_state and update.  The
\* cell never looks inside a state, so two states that differ in every field
\* stand for all of them.
Snapshots == {InitialState, TestUpdated}

\* A placeholder no round publishes: what a task that has not read yet has
\* seen, and the argument of a producer that is not inside update.
NoSnap ==
  [prevote_ghost |-> Some(0), finalized |-> Some(0), estimate |-> Some(0),
   completable |-> FALSE]

VARIABLES
  inner,     \* Bridged.inner: the RoundState stored in the RwLock
  wlock,     \* the producers holding the RwLock exclusively
  wparked,   \* the producers parked waiting for exclusive access
  guards,    \* guards[t]: RwLockReadGuards task t holds
  task,      \* Bridged.task: the task the AtomicTask has registered
  takes,     \* whether AtomicTask::notify empties the slot (library policy)
  wake,      \* wake[t]: task t has been notified and not yet resumed
  ppc,       \* ppc[p]: where producer p is
  pnew,      \* pnew[p]: the argument `new` of p's update call
  pidx,      \* pidx[p]: the next field of `new` to copy into the cell
  cpc,       \* cpc[t]: where consumer task t is
  seen,      \* seen[t]: the state t read through its latest guard
  barrier,   \* threads that have arrived at the test's Barrier
  nupd,      \* update calls made so far
  ngets,     \* ngets[t]: get calls made so far by t
  initial,   \* history: the argument of bridge_state
  passed,    \* history: the values passed to update so far
  written,   \* history: the values of the completed writes, in order
  burst,     \* history: the values of the updates returned since the last read
  lastRet,   \* history: the value of the update that returned last
  obs,       \* history: obs[t], what each get of t observed
  regd,      \* history: regd[t], t's current get has registered
  gotSince,  \* history: t has called get since it last resumed
  pmark,     \* history: pmark[p], tasks whose get had begun when p called update
  updDone,   \* history: an update called after t's get began has returned
  ntfAfterReg, \* history: a notify ran after t's current get registered
  woke,      \* history: t was notified or resumed since its current get began
  wokenAt    \* history: wokenAt[t], the writes completed when t was last notified

cellVars == <<inner, wlock, wparked, guards, task, takes, wake>>
procVars == <<ppc, pnew, pidx, cpc, seen, barrier, nupd, ngets>>
histVars == <<initial, passed, written, burst, lastRet, obs, regd, gotSince, pmark,
              updDone, ntfAfterReg, woke, wokenAt>>
vars == <<cellVars, procVars, histVars>>

\* ------------------------------------------------------- the Bridged cell

\* Mutant of Bridge: a default-constructed cell that ignores `initial`.
BridgeDefault(init) == InitialState

\* Bridged::new(RwLock::new(initial)): the cell starts holding `initial`.
Bridge(init) == init

\* Mutant of CanWrite: a writer that does not wait for the readers.
CanWriteIgnoringReaders(w, r) == w = {}

\* The RwLock grants exclusive access when nobody holds it in any mode.
CanWrite(w, r) == w = {} /\ r = 0

\* Mutant of CanRead: a read that does not wait for the writer.
CanReadUnlocked(w, wp) == TRUE

\* The RwLock grants shared access when no writer holds it and none is parked
\* waiting for it (parking_lot's task-fair policy).
CanRead(w, wp) == w = {} /\ wp = {}

\* Mutant of Assign: a merge that keeps a field the new state leaves empty.
AssignKeepSome(cur, new, f) ==
  IF f /= "completable" /\ new[f] = None THEN cur
  ELSE [cur EXCEPT ![f] = new[f]]

\* Mutant of Assign: the first published value of a field wins.
AssignFirstWins(cur, new, f) ==
  IF cur[f] = InitialState[f] THEN [cur EXCEPT ![f] = new[f]] ELSE cur

\* Mutant of Assign: a state that has finalized never goes back to one that
\* has not.
AssignIfNewer(cur, new, f) ==
  IF Len(new.finalized) < Len(cur.finalized) THEN cur
  ELSE [cur EXCEPT ![f] = new[f]]

\* `*guard = new`, one field at a time: field f of the cell becomes new.f.
Assign(cur, new, f) == [cur EXCEPT ![f] = new[f]]

\* Mutant of Register: the first registration stays until it is taken.
RegisterIfEmpty(slot, t) == IF slot = NoTask THEN t ELSE slot

\* Mutant of Register: the registration is not stored.
RegisterLost(slot, t) == slot

\* AtomicTask::register: the slot holds the registering task, whatever it held.
Register(slot, t) == t

\* Mutant of NotifyWake: notify wakes every task, registered or not.
NotifyWakeAll(slot, w) == [t \in Tasks |-> TRUE]

\* Mutant of NotifyWake: update does not notify.
NotifyWakeNobody(slot, w) == w

\* AtomicTask::notify: the registered task, if any, is notified.
NotifyWake(slot, w) == [t \in Tasks |-> w[t] \/ slot = t]

\* AtomicTask::notify: what the slot holds afterwards.
NotifySlot(slot, take) == IF take THEN NoTask ELSE slot

\* Mutant of GetOrder: the read guard is taken before the task registers.
GetOrderReadFirst == <<"read", "register">>

\* The steps of LatterView::get, in program order.
GetOrder == <<"register", "read">>

\* Where a task goes after step s of get: the next step, or back to the caller.
NextStep(s) ==
  LET i == CHOOSE k \in 1..Len(GetOrder) : GetOrder[k] = s
  IN  IF i < Len(GetOrder) THEN GetOrder[i + 1] ELSE "out"

\* Read guards held over the cell, by all tasks together.
RECURSIVE SumGuards(_, _)
SumGuards(g, S) ==
  IF S = {} THEN 0
  ELSE LET t == CHOOSE x \in S : TRUE IN g[t] + SumGuards(g, S \ {t})

Readers == SumGuards(guards, Tasks)

\* ----------------------------------------------------------- construction

\* bridge_state(initial): one cell, an empty wake slot, nothing locked.
InitCell ==
  /\ initial \in Snapshots
  /\ inner = Bridge(initial)
  /\ wlock = {}
  /\ wparked = {}
  /\ guards = [t \in Tasks |-> 0]
  /\ task = NoTask
  /\ takes \in BOOLEAN
  /\ wake = [t \in Tasks |-> FALSE]

InitHist ==
  /\ passed = {}
  /\ written = <<>>
  /\ burst = <<>>
  /\ lastRet = NoSnap
  /\ obs = [t \in Tasks |-> <<>>]
  /\ regd = [t \in Tasks |-> FALSE]
  /\ gotSince = [t \in Tasks |-> FALSE]
  /\ pmark = [p \in Producers |-> {}]
  /\ updDone = [t \in Tasks |-> FALSE]
  /\ ntfAfterReg = [t \in Tasks |-> FALSE]
  /\ woke = [t \in Tasks |-> FALSE]
  /\ wokenAt = [t \in Tasks |-> 0]

InitProc(pstart, cstart) ==
  /\ ppc = [p \in Producers |-> IF p = "P" THEN pstart ELSE "off"]
  /\ pnew = [p \in Producers |-> NoSnap]
  /\ pidx = [p \in Producers |-> 0]
  /\ cpc = [t \in Tasks |-> IF t = "A" THEN cstart ELSE "off"]
  /\ seen = [t \in Tasks |-> NoSnap]
  /\ barrier = 0
  /\ nupd = 0
  /\ ngets = [t \in Tasks |-> 0]

\* One producer view and one consumer view, each ready to call.
Init == InitCell /\ InitHist /\ InitProc("idle", "out")

\* ------------------------------------------------------ PriorView::update

\* The producer calls update(v).
UpdateCall(p, v) ==
  /\ ppc[p] = "idle"
  /\ nupd < MaxUpdates
  /\ ppc' = [ppc EXCEPT ![p] = "write"]
  /\ pnew' = [pnew EXCEPT ![p] = v]
  /\ nupd' = nupd + 1
  /\ passed' = passed \cup {v}
  /\ pmark' = [pmark EXCEPT ![p] = {t \in Tasks : ngets[t] > 0}]
  /\ UNCHANGED <<cellVars, pidx, cpc, seen, barrier, ngets>>
  /\ UNCHANGED <<initial, written, burst, lastRet, obs, regd, gotSince,
                 updDone, ntfAfterReg, woke, wokenAt>>

\* inner.write() finds the lock taken and parks, which holds new readers off.
WritePark(p) ==
  /\ ppc[p] = "write"
  /\ ~CanWrite(wlock, Readers)
  /\ p \notin wparked
  /\ wparked' = wparked \cup {p}
  /\ UNCHANGED <<inner, wlock, guards, task, takes, wake, procVars, histVars>>

\* inner.write() returns the write guard.
WriteAcquire(p) ==
  /\ ppc[p] = "write"
  /\ CanWrite(wlock, Readers)
  /\ wlock' = wlock \cup {p}
  /\ wparked' = wparked \ {p}
  /\ ppc' = [ppc EXCEPT ![p] = "copy"]
  /\ pidx' = [pidx EXCEPT ![p] = 1]
  /\ UNCHANGED <<inner, guards, task, takes, wake>>
  /\ UNCHANGED <<pnew, cpc, seen, barrier, nupd, ngets, histVars>>

\* `*guard = new` copies the next field of new into the cell.
WriteField(p) ==
  /\ ppc[p] = "copy"
  /\ pidx[p] <= Len(Fields)
  /\ inner' = Assign(inner, pnew[p], Fields[pidx[p]])
  /\ pidx' = [pidx EXCEPT ![p] = pidx[p] + 1]
  /\ UNCHANGED <<wlock, wparked, guards, task, takes, wake>>
  /\ UNCHANGED <<ppc, pnew, cpc, seen, barrier, nupd, ngets, histVars>>

\* Mutant of WriteRelease: the write guard lives until update returns, so
\* notify runs with the cell still locked.
WriteReleaseLate(p) ==
  /\ ppc[p] = "copy"
  /\ pidx[p] > Len(Fields)
  /\ ppc' = [ppc EXCEPT ![p] = "notify"]
  /\ pidx' = [pidx EXCEPT ![p] = 0]
  /\ written' = Append(written, pnew[p])
  /\ UNCHANGED <<cellVars, pnew, cpc, seen, barrier, nupd, ngets>>
  /\ UNCHANGED <<initial, passed, burst, lastRet, obs, regd, gotSince, pmark,
                 updDone, ntfAfterReg, woke, wokenAt>>

\* The write guard is dropped at the end of the assignment statement.
WriteRelease(p) ==
  /\ ppc[p] = "copy"
  /\ pidx[p] > Len(Fields)
  /\ wlock' = wlock \ {p}
  /\ ppc' = [ppc EXCEPT ![p] = "notify"]
  /\ pidx' = [pidx EXCEPT ![p] = 0]
  /\ written' = Append(written, pnew[p])
  /\ UNCHANGED <<inner, wparked, guards, task, takes, wake>>
  /\ UNCHANGED <<pnew, cpc, seen, barrier, nupd, ngets>>
  /\ UNCHANGED <<initial, passed, burst, lastRet, obs, regd, gotSince, pmark,
                 updDone, ntfAfterReg, woke, wokenAt>>

\* task.notify(), after which update returns.
Notify(p) ==
  /\ ppc[p] = "notify"
  /\ wake' = NotifyWake(task, wake)
  /\ task' = NotifySlot(task, takes)
  /\ ppc' = [ppc EXCEPT ![p] = "idle"]
  /\ pnew' = [pnew EXCEPT ![p] = NoSnap]
  /\ lastRet' = pnew[p]
  /\ burst' = Append(burst, pnew[p])
  /\ updDone' = [t \in Tasks |-> updDone[t] \/ t \in pmark[p]]
  /\ pmark' = [pmark EXCEPT ![p] = {}]
  /\ ntfAfterReg' = [t \in Tasks |-> ntfAfterReg[t] \/ regd[t]]
  /\ woke' = [t \in Tasks |-> woke[t] \/ wake'[t] /= wake[t]]
  /\ UNCHANGED <<inner, wlock, wparked, guards, takes>>
  /\ UNCHANGED <<pidx, cpc, seen, barrier, nupd, ngets>>
  /\ wokenAt' = [t \in Tasks |-> IF task = t THEN Len(written) ELSE wokenAt[t]]
  /\ UNCHANGED <<initial, passed, written, obs, regd, gotSince>>

\* --------------------------------------------------------- LatterView::get

\* The task calls get().
GetCall(t) ==
  /\ cpc[t] = "out"
  /\ ngets[t] < MaxGets
  /\ guards[t] < MaxGuards
  /\ cpc' = [cpc EXCEPT ![t] = GetOrder[1]]
  /\ ngets' = [ngets EXCEPT ![t] = ngets[t] + 1]
  /\ regd' = [regd EXCEPT ![t] = FALSE]
  /\ updDone' = [updDone EXCEPT ![t] = FALSE]
  /\ ntfAfterReg' = [ntfAfterReg EXCEPT ![t] = FALSE]
  /\ woke' = [woke EXCEPT ![t] = FALSE]
  /\ pmark' = [p \in Producers |-> pmark[p] \ {t}]
  /\ UNCHANGED <<cellVars, ppc, pnew, pidx, seen, barrier, nupd>>
  /\ UNCHANGED <<initial, passed, written, burst, lastRet, obs, gotSince,
                 wokenAt>>

\* task.register(): the calling task becomes the one to notify.
GetRegister(t) ==
  /\ cpc[t] = "register"
  /\ task' = Register(task, t)
  /\ cpc' = [cpc EXCEPT ![t] = NextStep("register")]
  /\ regd' = [regd EXCEPT ![t] = TRUE]
  /\ gotSince' = [gotSince EXCEPT ![t] = TRUE]
  /\ UNCHANGED <<inner, wlock, wparked, guards, takes, wake>>
  /\ UNCHANGED <<ppc, pnew, pidx, seen, barrier, nupd, ngets>>
  /\ UNCHANGED <<initial, passed, written, burst, lastRet, obs, pmark,
                 updDone, ntfAfterReg, woke, wokenAt>>

\* inner.read() returns a read guard, through which the caller sees the cell.
GetRead(t) ==
  /\ cpc[t] = "read"
  /\ CanRead(wlock, wparked)
  /\ guards' = [guards EXCEPT ![t] = guards[t] + 1]
  /\ seen' = [seen EXCEPT ![t] = inner]
  /\ cpc' = [cpc EXCEPT ![t] = NextStep("read")]
  /\ obs' = [obs EXCEPT ![t] = Append(obs[t], [val |-> inner, lb |-> Len(written)])]
  /\ burst' = <<>>
  /\ UNCHANGED <<inner, wlock, wparked, task, takes, wake>>
  /\ UNCHANGED <<ppc, pnew, pidx, barrier, nupd, ngets>>
  /\ UNCHANGED <<initial, passed, written, lastRet, regd, gotSince, pmark,
                 updDone, ntfAfterReg, woke, wokenAt>>

\* ------------------------------------------------------------ the callers

\* The caller drops a read guard and goes on at `next`.
DropGuardTo(t, next) ==
  /\ cpc[t] = "out"
  /\ guards[t] > 0
  /\ guards' = [guards EXCEPT ![t] = guards[t] - 1]
  /\ cpc' = [cpc EXCEPT ![t] = next]
  /\ UNCHANGED <<inner, wlock, wparked, task, takes, wake>>
  /\ UNCHANGED <<ppc, pnew, pidx, seen, barrier, nupd, ngets, histVars>>

DropGuard(t) == DropGuardTo(t, "out")

\* The task returns NotReady from its poll: it sleeps until notified.
Suspend(t) ==
  /\ cpc[t] = "out"
  /\ cpc' = [cpc EXCEPT ![t] = "parked"]
  /\ UNCHANGED <<cellVars, ppc, pnew, pidx, seen, barrier, nupd, ngets,
                 histVars>>

\* The executor polls a notified task again.
Resume(t) ==
  /\ cpc[t] = "parked"
  /\ wake[t]
  /\ wake' = [wake EXCEPT ![t] = FALSE]
  /\ cpc' = [cpc EXCEPT ![t] = "out"]
  /\ gotSince' = [gotSince EXCEPT ![t] = FALSE]
  /\ woke' = [woke EXCEPT ![t] = TRUE]
  /\ UNCHANGED <<inner, wlock, wparked, guards, task, takes>>
  /\ UNCHANGED <<ppc, pnew, pidx, seen, barrier, nupd, ngets>>
  /\ UNCHANGED <<initial, passed, written, burst, lastRet, obs, regd, pmark,
                 updDone, ntfAfterReg, wokenAt>>

Next ==
  \/ \E p \in Producers, v \in Snapshots : UpdateCall(p, v)
  \/ \E p \in Producers : WritePark(p)
  \/ \E p \in Producers : WriteAcquire(p)
  \/ \E p \in Producers : WriteField(p)
  \/ \E p \in Producers : WriteRelease(p)
  \/ \E p \in Producers : Notify(p)
  \/ \E t \in Tasks : GetCall(t)
  \/ \E t \in Tasks : GetRegister(t)
  \/ \E t \in Tasks : GetRead(t)
  \/ \E t \in Tasks : DropGuard(t)
  \/ \E t \in Tasks : Suspend(t)
  \/ \E t \in Tasks : Resume(t)

Spec == Init /\ [][Next]_vars

TypeOK ==
  /\ inner \in [prevote_ghost : {None, Some(5)}, finalized : {None, Some(1)},
                estimate : {None, Some(3)}, completable : BOOLEAN]
  /\ wlock \subseteq Producers
  /\ task \in Tasks \cup {NoTask}
  /\ \A t \in Tasks : guards[t] \in 0..MaxGuards

\* Threads inside update or get keep running, and the executor polls a
\* notified task again; when a caller calls, drops a guard or suspends is up
\* to the caller.
Fairness ==
  /\ \A p \in Producers : WF_vars(WriteAcquire(p))
  /\ \A p \in Producers : WF_vars(WriteField(p))
  /\ \A p \in Producers : WF_vars(WriteRelease(p))
  /\ \A p \in Producers : WF_vars(Notify(p))
  /\ \A t \in Tasks : WF_vars(GetRegister(t))
  /\ \A t \in Tasks : WF_vars(GetRead(t))
  /\ \A t \in Tasks : WF_vars(Resume(t))

FairSpec == Spec /\ Fairness

\* ------------------------------------------------------------------ claims

\* Task t sleeps, having called get since it last ran, and holds no guard.
Asleep(t) == cpc[t] = "parked" /\ gotSince[t] /\ guards[t] = 0

AllIdle == \A p \in Producers : ppc[p] \notin {"write", "copy", "notify"}
ReadStep(t) == cpc[t] = "read" /\ cpc'[t] /= "read"

\* C2 as stated: a task that sleeps after a get, when an update called after
\* that get began has returned, has been woken (a wake is pending or it has
\* run again) - also when the update ran before get registered.
C2_Original ==
  \A t \in Tasks :
    (cpc[t] = "parked" /\ updDone[t] /\ AllIdle) => (wake[t] \/ woke[t])

\* C2 (racing update, amended): when the notify step of an update runs after
\* the registration step of the task's current get has completed, the task
\* is woken at least once: a wake is pending for it, or it has run again.
C2_RacingUpdate ==
  \A t \in Tasks : ntfAfterReg[t] => (wake[t] \/ woke[t])

\* C2 witness: an update called after get began ran its notify after get's
\* registration; the task suspended afterwards and has been resumed.
C2_Witness ==
  /\ ntfAfterReg["A"] /\ updDone["A"]
  /\ woke["A"] /\ ~wake["A"] /\ ~gotSince["A"]
  /\ cpc["A"] = "out"

\* C3 (visibility): when an update has returned and no update has been called
\* since, the read of a get returns the value that update was given.
C3_Visibility ==
  [][\A t \in Tasks :
       (ReadStep(t) /\ AllIdle /\ lastRet /= NoSnap) => seen'[t] = lastRet]_vars

\* C3 witness: a get that began after update(v) returned, with no update
\* called since, holds a guard over v, which differs from the initial state.
C3_Witness ==
  /\ AllIdle /\ lastRet /= NoSnap /\ lastRet /= initial
  /\ cpc["A"] = "out" /\ guards["A"] = 1
  /\ ~updDone["A"] /\ \A p \in Producers : "A" \notin pmark[p]
  /\ seen["A"] = lastRet

\* C4 (last write wins): after two or more updates have returned with no read
\* between them, the next read returns the value of the last of them, which
\* is the one value the cell holds.
C4_LastWriteWins ==
  [][\A t \in Tasks :
       (ReadStep(t) /\ AllIdle /\ Len(burst) >= 2)
         => (seen'[t] = burst[Len(burst)] /\ seen'[t] = inner)]_vars

\* C4 witness: the first read of the task came after two writes of different
\* values, and it saw the second.
C4_Witness ==
  /\ Len(written) = 2 /\ written[1] /= written[2]
  /\ Len(obs["A"]) = 1 /\ obs["A"][1].lb = 2
  /\ obs["A"][1].val = written[2]

\* C5 (no torn reads): every value a get observed is the initial state or a
\* value passed to update, whole.
C5_NoTornRead ==
  \A t \in Tasks :
    \A i \in DOMAIN obs[t] : obs[t][i].val \in {initial} \cup passed

\* C5 witness: a get waits for the read lock while the writer has copied some
\* but not all fields, so that the cell holds a mix of two states.
C5_Witness ==
  /\ cpc["A"] = "read"
  /\ wlock /= {}
  /\ inner \notin {initial} \cup passed

\* C7 (no-update stability): while update has not been called, every get
\* returned the state the bridge was built with.
C7_NoUpdateStable ==
  nupd = 0 =>
    \A t \in Tasks : \A i \in DOMAIN obs[t] : obs[t][i].val = initial

\* C7 witness: two gets and no update, on a bridge built with a state other
\* than the empty one.
C7_Witness ==
  /\ nupd = 0 /\ Len(obs["A"]) >= 2
  /\ initial /= InitialState
  /\ seen["A"] = initial

\* The initial state followed by the completed writes, in write order.
Timeline == <<initial>> \o written

\* C8 (read monotonicity): the values the successive gets of a task observed
\* appear in the timeline at positions that never go back, each at or after
\* the last write that had completed when the read was made.
C8_ReadMonotonic ==
  \A t \in Tasks :
    \E f \in [DOMAIN obs[t] -> DOMAIN Timeline] :
      \A i \in DOMAIN obs[t] :
        /\ f[i] >= obs[t][i].lb + 1
        /\ Timeline[f[i]] = obs[t][i].val
        /\ i > 1 => f[i - 1] <= f[i]

\* C8 witness: two reads with a write completed between them; the second
\* read saw the new value, which differs from what the first saw.
C8_Witness ==
  /\ Len(obs["A"]) >= 2
  /\ obs["A"][1].lb < obs["A"][2].lb
  /\ obs["A"][1].val /= obs["A"][2].val
  /\ obs["A"][2].val = written[obs["A"][2].lb]

\* C9 (update is total): an idle producer can call update with any snapshot
\* value; when the write guard is released the cell holds exactly the value
\* passed, whatever it held before; and the notify step that follows wakes
\* the registered task.
C9_UpdateTotal ==
  /\ [](\A p \in Producers : \A v \in Snapshots :
          (ppc[p] = "idle" /\ nupd < MaxUpdates) => ENABLED UpdateCall(p, v))
  /\ [][\A p \in Producers :
          /\ (ppc[p] = "copy" /\ ppc'[p] = "notify") => inner' = pnew[p]
          /\ (ppc[p] = "notify" /\ ppc'[p] = "idle" /\ task /= NoTask)
               => wake'[task]]_vars

\* C9 witness: an update has put back a value that was stored earlier and
\* overwritten since, and has notified the registered task.
C9_Witness ==
  /\ AllIdle
  /\ Len(written) = 2 /\ written[2] = initial /\ written[1] /= initial
  /\ inner = initial
  /\ wake["A"] /\ ntfAfterReg["A"]

\* C10 (register before read): a get takes its read guard only after its own
\* registration has been made.
C10_RegisterBeforeRead ==
  [][\A t \in Tasks : guards'[t] > guards[t] => regd[t]]_vars

\* C10 witness: a get has returned a guard, and its registration is in the
\* slot.
C10_Witness ==
  /\ cpc["A"] = "out" /\ guards["A"] = 1
  /\ regd["A"] /\ task = "A"
  /\ Len(obs["A"]) = ngets["A"]

\* ------------------------------------------------ tests::bridging_state

\* Barrier::new(2): the threads the barrier waits for.
BarrierSize == 2

\* bridge_state(initial) with nothing finalized; the producer thread is
\* spawned and the main thread is about to wait at the barrier.
TestInit ==
  /\ InitCell
  /\ initial = InitialState
  /\ InitHist
  /\ InitProc("spawned", "main")

\* barrier_other.wait(), entered by the spawned thread.
ProducerBarrier(p) ==
  /\ ppc[p] = "spawned"
  /\ ppc' = [ppc EXCEPT ![p] = "arrived"]
  /\ barrier' = barrier + 1
  /\ UNCHANGED <<cellVars, pnew, pidx, cpc, seen, nupd, ngets, histVars>>

\* barrier_other.wait() returns once both threads have arrived.
ProducerStart(p) ==
  /\ ppc[p] = "arrived"
  /\ barrier = BarrierSize
  /\ ppc' = [ppc EXCEPT ![p] = "idle"]
  /\ UNCHANGED <<cellVars, pnew, pidx, cpc, seen, barrier, nupd, ngets,
                 histVars>>

\* barrier.wait(), entered by the main thread.
MainBarrier(t) ==
  /\ cpc[t] = "main"
  /\ cpc' = [cpc EXCEPT ![t] = "arrived"]
  /\ barrier' = barrier + 1
  /\ UNCHANGED <<cellVars, ppc, pnew, pidx, seen, nupd, ngets, histVars>>

\* barrier.wait() returns and waits_for_finality.wait() starts polling.
MainStart(t) ==
  /\ cpc[t] = "arrived"
  /\ barrier = BarrierSize
  /\ cpc' = [cpc EXCEPT ![t] = "out"]
  /\ UNCHANGED <<cellVars, ppc, pnew, pidx, seen, barrier, nupd, ngets,
                 histVars>>

\* The spawned thread's one call: prior.update(the finalized state).
TestUpdate(p) ==
  /\ nupd = 0
  /\ UpdateCall(p, TestUpdated)

\* The poll function calls latter.get().
TestPoll(t) ==
  /\ guards[t] = 0
  /\ GetCall(t)

\* The poll function has looked at finalized through the guard, which is a
\* temporary of the condition and is dropped with it.
TestCheck(t) == DropGuardTo(t, "tested")

\* finalized.is_some(): Ok(Async::Ready(())), and wait() returns.
PollReady(t) ==
  /\ cpc[t] = "tested"
  /\ seen[t].finalized /= None
  /\ cpc' = [cpc EXCEPT ![t] = "done"]
  /\ UNCHANGED <<cellVars, ppc, pnew, pidx, seen, barrier, nupd, ngets,
                 histVars>>

\* Otherwise Ok(Async::NotReady): wait() parks the thread until notified.
PollNotReady(t) ==
  /\ cpc[t] = "tested"
  /\ seen[t].finalized = None
  /\ cpc' = [cpc EXCEPT ![t] = "parked"]
  /\ UNCHANGED <<cellVars, ppc, pnew, pidx, seen, barrier, nupd, ngets,
                 histVars>>

TestNext ==
  \/ \E p \in Producers : ProducerBarrier(p)
  \/ \E p \in Producers : ProducerStart(p)
  \/ \E t \in Tasks : MainBarrier(t)
  \/ \E t \in Tasks : MainStart(t)
  \/ \E p \in Producers : TestUpdate(p)
  \/ \E p \in Producers : WritePark(p)
  \/ \E p \in Producers : WriteAcquire(p)
  \/ \E p \in Producers : WriteField(p)
  \/ \E p \in Producers : WriteRelease(p)
  \/ \E p \in Producers : Notify(p)
  \/ \E t \in Tasks : TestPoll(t)
  \/ \E t \in Tasks : GetRegister(t)
  \/ \E t \in Tasks : GetRead(t)
  \/ \E t \in Tasks : TestCheck(t)
  \/ \E t \in Tasks : PollReady(t)
  \/ \E t \in Tasks : PollNotReady(t)
  \/ \E t \in Tasks : Resume(t)

TestSpec == TestInit /\ [][TestNext]_vars

\* Both threads of the test run whenever they can take a step.
TestFairness ==
  /\ Fairness
  /\ \A p \in Producers :
       WF_vars(ProducerBarrier(p) \/ ProducerStart(p) \/ TestUpdate(p))
  /\ \A t \in Tasks :
       WF_vars(MainBarrier(t) \/ MainStart(t) \/ TestPoll(t) \/ TestCheck(t)
               \/ PollReady(t) \/ PollNotReady(t))

FairTestSpec == TestSpec /\ TestFairness

\* C6 (end-to-end termination): the test's wait eventually completes, and
\* the state it completes on is the pushed state, whole.
C6_TestTerminates ==
  /\ <>(cpc["A"] = "done")
  /\ [](cpc["A"] = "done" => seen["A"] = TestUpdated)

\* C6 witness: the wait completed on its second poll, after the first poll
\* found nothing finalized and the update woke the parked thread.
C6_Witness ==
  /\ cpc["A"] = "done"
  /\ ngets["A"] = 2 /\ obs["A"][1].val = InitialState
  /\ seen["A"] = TestUpdated
  /\ gotSince["A"] /\ ~wake["A"]


\* ------------------------------------------------- claims: the wake slot

\* Producer steps, as seen in a transition.
ReleaseStep(p) == ppc[p] = "copy" /\ ppc'[p] = "notify"
NotifyStep(p) == ppc[p] = "notify" /\ ppc'[p] /= "notify"
RegisterStep(t) == cpc[t] = "register" /\ cpc'[t] /= "register"

\* C11 (write then notify): when update releases exclusive access the cell
\* holds the new value whole; notify runs only after that, with the write
\* lock no longer held by the updater and the new value among the completed
\* writes; and a task that an update has notified reads, in every later get,
\* the value of a write at or after that update's.
C11_WriteThenNotify ==
  [][/\ \A p \in Producers :
          /\ ReleaseStep(p) => (inner = pnew[p] /\ p \in wlock /\ p \notin wlock')
          /\ NotifyStep(p) =>
               /\ p \notin wlock
               /\ written /= <<>>
               /\ written[Len(written)] = pnew[p]
               /\ inner = pnew[p]
     /\ \A t \in Tasks :
          (ReadStep(t) /\ wokenAt[t] > 0) =>
             /\ Len(written) >= wokenAt[t]
             /\ seen'[t] = written[Len(written)]]_vars

\* C11 witness: the task was notified by the first update, and its next get
\* returned the value of the second write, which differs from the first.
C11_Witness ==
  /\ wokenAt["A"] = 1 /\ Len(written) = 2
  /\ written[1] /= written[2]
  /\ ngets["A"] = 2 /\ cpc["A"] = "out" /\ guards["A"] = 1
  /\ obs["A"][2].lb = 2 /\ seen["A"] = written[2]


\* C13 (waiter state machine): a fresh cell has nobody registered and nobody
\* notified; an update whose notify finds nobody registered wakes no task,
\* leaves the slot empty, and has still replaced the stored state; and the
\* register step of get leaves the calling task registered.
C13_WaiterStates ==
  /\ task = NoTask
  /\ \A t \in Tasks : ~wake[t]
  /\ [][/\ \A p \in Producers :
             (NotifyStep(p) /\ task = NoTask) =>
                /\ wake' = wake
                /\ task' = NoTask
                /\ inner = pnew[p]
        /\ \A t \in Tasks :
             RegisterStep(t) => (task' = t /\ wake' = wake)]_vars

\* C13 witness: an update ran to its end before any get was called; the
\* stored state changed, the slot is still empty and no task was notified.
C13_Witness ==
  /\ nupd = 1 /\ AllIdle
  /\ \A t \in Tasks : ngets[t] = 0 /\ ~wake[t] /\ ~woke[t]
  /\ task = NoTask
  /\ inner = lastRet /\ lastRet /= initial


\* C16 (no lost wakeup): whenever the consumer task sleeps after a get, no
\* wake is pending for it, and no update is writing or has written without
\* having notified yet, the stored state is the state the task read in its
\* last get.
C16_NoLostWakeup ==
  \A t \in Tasks :
    (/\ cpc[t] = "parked" /\ gotSince[t]
     /\ ~wake[t]
     /\ \A p \in Producers : ppc[p] \notin {"copy", "notify"})
    => inner = seen[t]

\* C16 witness: the task went round the loop: its first get read the initial
\* state, it slept, an update woke it, its second get read the new state and
\* it sleeps again with nothing pending.
C16_Witness ==
  /\ cpc["A"] = "parked" /\ gotSince["A"] /\ ~wake["A"] /\ guards["A"] = 0
  /\ AllIdle /\ nupd >= 1
  /\ ngets["A"] = 2
  /\ obs["A"][1].val = initial /\ obs["A"][2].val /= initial
  /\ seen["A"] = inner /\ inner = lastRet


\* ------------------------------------------------- claims: the lock

\* The calls of Spec with the states of the test: the cell starts with
\* nothing finalized and every update pushes the finalized state.  The lock
\* never looks at the state it guards.
LockInit == initial = InitialState /\ Init

LockNext ==
  \/ \E p \in Producers : UpdateCall(p, TestUpdated)
  \/ \E p \in Producers : WritePark(p)
  \/ \E p \in Producers : WriteAcquire(p)
  \/ \E p \in Producers : WriteField(p)
  \/ \E p \in Producers : WriteRelease(p)
  \/ \E p \in Producers : Notify(p)
  \/ \E t \in Tasks : GetCall(t)
  \/ \E t \in Tasks : GetRegister(t)
  \/ \E t \in Tasks : GetRead(t)
  \/ \E t \in Tasks : DropGuard(t)
  \/ \E t \in Tasks : Suspend(t)
  \/ \E t \in Tasks : Resume(t)

LockSpec == LockInit /\ [][LockNext]_vars

FairLockSpec == LockSpec /\ Fairness

\* The write section of update is entered.
AcquireStep(p) == ppc[p] = "write" /\ ppc'[p] = "copy"

\* Task t sleeps on a read guard, and nothing that ran before is about to
\* wake it: no wake is pending and no update has its notify still to run.
SleepsOnGuard(t) ==
  /\ cpc[t] = "parked" /\ guards[t] > 0
  /\ ~wake[t]
  /\ \A p \in Producers : ppc[p] /= "notify"

\* C17 (update waits for the guards): update enters its write section only
\* when no read guard is held; if every task's guards are dropped again and
\* again, every update that was called returns; and while a task sleeps on
\* a read guard no update gets past its write, so that a task sleeping on a
\* guard with no earlier wake on its way sleeps forever.
C17_UpdateNeedsGuardRelease ==
  /\ [][/\ \A p \in Producers : AcquireStep(p) => Readers = 0
        /\ \A t \in Tasks :
             (cpc[t] = "parked" /\ guards[t] > 0) =>
                \A p \in Producers : ppc[p] = "write" => ppc'[p] = "write"
        /\ \A t \in Tasks : SleepsOnGuard(t) => SleepsOnGuard(t)']_vars
  /\ (\A t \in Tasks : []<>(guards[t] = 0)) =>
       \A p \in Producers : (ppc[p] = "write") ~> (ppc[p] = "idle")

\* C17 witness: the task sleeps on the guard its get returned, the producer
\* has called update and is parked waiting for the lock, and no wake is
\* pending.
C17_Witness ==
  /\ SleepsOnGuard("A") /\ guards["A"] = 1 /\ gotSince["A"]
  /\ ppc["P"] = "write" /\ "P" \in wparked


\* Task t is inside get.
InGet(t) == cpc[t] \in {"register", "read"}

\* C15 as stated (get always returns): every get call eventually returns.
C15_Original ==
  \A t \in Tasks : InGet(t) ~> (cpc[t] = "out")

\* C15 (get returns to a caller that holds no guard): a get call made by a
\* task that holds no read guard of the cell eventually returns, provided
\* the guards held by the other tasks are dropped again and again.
C15_GetReturns ==
  \A t \in Tasks :
    (\A u \in Tasks \ {t} : []<>(guards[u] = 0))
    => ((InGet(t) /\ guards[t] = 0) ~> (cpc[t] = "out"))

\* C15 witness: the task is inside get holding no guard, and its read waits
\* for the write in flight.
C15_Witness ==
  /\ cpc["A"] = "read" /\ guards["A"] = 0
  /\ wlock = {"P"} /\ ppc["P"] = "copy"
  /\ ~CanRead(wlock, wparked)


\* ------------------------------------------- several callers on one cell

\* update and get take &self: threads PS call update and tasks TS call get
\* on the same cell, each ready to call.
InitViews(PS, TS) ==
  /\ ppc = [p \in Producers |-> IF p \in PS THEN "idle" ELSE "off"]
  /\ pnew = [p \in Producers |-> NoSnap]
  /\ pidx = [p \in Producers |-> 0]
  /\ cpc = [t \in Tasks |-> IF t \in TS THEN "out" ELSE "off"]
  /\ seen = [t \in Tasks |-> NoSnap]
  /\ barrier = 0
  /\ nupd = 0
  /\ ngets = [t \in Tasks |-> 0]

\* The steps inside update and get, and the caller's dropping of a guard.
CallSteps ==
  \/ \E p \in Producers : WritePark(p)
  \/ \E p \in Producers : WriteAcquire(p)
  \/ \E p \in Producers : WriteField(p)
  \/ \E p \in Producers : WriteRelease(p)
  \/ \E p \in Producers : Notify(p)
  \/ \E t \in Tasks : GetCall(t)
  \/ \E t \in Tasks : GetRegister(t)
  \/ \E t \in Tasks : GetRead(t)
  \/ \E t \in Tasks : DropGuard(t)

\* The one update of a round that produces its state once.
FirstUpdate(p, v) == nupd = 0 /\ UpdateCall(p, v)

\* One producer thread that updates once, and two tasks that poll the same
\* consumer view.
TwoTaskInit == InitCell /\ InitHist /\ InitViews({"P"}, Tasks)

TwoTaskNext ==
  \/ \E p \in Producers, v \in Snapshots : FirstUpdate(p, v)
  \/ CallSteps

TwoTaskSpec == TwoTaskInit /\ [][TwoTaskNext]_vars

\* C12 (single slot, last registration wins): the slot holds one task or
\* none; a register step leaves the calling task in the slot, whatever it
\* held, and notifies nobody; and a notify step wakes the task the slot
\* holds and no other.
C12_LastRegistrationWins ==
  /\ task \in Tasks \cup {NoTask}
  /\ [][/\ task' \in Tasks \cup {NoTask}
        /\ \A t \in Tasks : RegisterStep(t) => (task' = t /\ wake' = wake)
        /\ \A p \in Producers :
             NotifyStep(p) =>
               \A t \in Tasks : wake'[t] = (wake[t] \/ task = t)]_vars

\* C12 witness: A and B each called get once and registered, B last; the
\* update's notify ran after both registrations, woke B and did not wake A.
C12_Witness ==
  /\ ngets["A"] = 1 /\ ngets["B"] = 1
  /\ regd["A"] /\ regd["B"]
  /\ nupd = 1 /\ AllIdle
  /\ ntfAfterReg["A"] /\ ntfAfterReg["B"]
  /\ wake["B"] /\ ~wake["A"] /\ ~woke["A"]


\* Two threads that share the producer view, and one consumer task.
TwoWriterInit == InitCell /\ InitHist /\ InitViews(Producers, {"A"})

TwoWriterNext ==
  \/ \E p \in Producers, v \in Snapshots : UpdateCall(p, v)
  \/ CallSteps

TwoWriterSpec == TwoWriterInit /\ [][TwoWriterNext]_vars

\* Task t holds a guard across the step.
KeepsGuard(t) == guards[t] > 0 /\ guards'[t] >= guards[t]

\* C14 (reader/writer exclusion): at most one updater is in the write
\* section; none is while a read guard is held; and the state seen through
\* a held guard is the stored state, which no step changes while the guard
\* stays held.
C14_Exclusion ==
  /\ [](/\ Cardinality(wlock) <= 1
        /\ wlock /= {} => Readers = 0
        /\ \A t \in Tasks : guards[t] > 0 => seen[t] = inner)
  /\ [][\A t \in Tasks : KeepsGuard(t) => inner' = inner]_vars

\* C14 witness: one updater is inside the write section with the state half
\* copied, the other updater waits for the lock, and no guard is held.
C14_Witness ==
  /\ wlock = {"P"} /\ ppc["P"] = "copy" /\ pidx["P"] = 3
  /\ ppc["Q"] = "write" /\ "Q" \in wparked
  /\ Readers = 0 /\ ngets["A"] >= 1
  /\ inner /= pnew["P"] /\ inner /= seen["A"]


\* ------------------------------------------------- dropping the views

\* Mutant of DropPrior: a drop that notifies the registered task.
DropPriorNotify(p) ==
  /\ ppc[p] = "idle"
  /\ ppc' = [ppc EXCEPT ![p] = "dropped"]
  /\ wake' = NotifyWake(task, wake)
  /\ task' = NotifySlot(task, takes)
  /\ UNCHANGED <<inner, wlock, wparked, guards, takes>>
  /\ UNCHANGED <<pnew, pidx, cpc, seen, barrier, nupd, ngets, histVars>>

\* The producer view goes out of scope.  PriorView has no Drop impl: its Arc
\* gives up one reference to the cell and nothing else happens.
DropPrior(p) ==
  /\ ppc[p] = "idle"
  /\ ppc' = [ppc EXCEPT ![p] = "dropped"]
  /\ UNCHANGED <<cellVars, pnew, pidx, cpc, seen, barrier, nupd, ngets,
                 histVars>>

\* The consumer view goes out of scope.  The guards borrow the view, so the
\* task holds none of them by then.
DropLatter(t) ==
  /\ cpc[t] = "out"
  /\ guards[t] = 0
  /\ cpc' = [cpc EXCEPT ![t] = "dropped"]
  /\ UNCHANGED <<cellVars, ppc, pnew, pidx, seen, barrier, nupd, ngets,
                 histVars>>

DropNext ==
  \/ Next
  \/ \E p \in Producers : DropPrior(p)
  \/ \E t \in Tasks : DropLatter(t)

DropSpec == Init /\ [][DropNext]_vars

\* The views that are gone, and a view's going.
PriorGone == \A p \in Producers : ppc[p] \in {"dropped", "off"}
LatterGone == \A t \in Tasks : cpc[t] \in {"dropped", "off"}
PriorDropStep(p) == ppc[p] /= "dropped" /\ ppc'[p] = "dropped"
LatterDropStep(t) == cpc[t] /= "dropped" /\ cpc'[t] = "dropped"

\* C18 (dropping a view leaves the cell alone): the drop of either view
\* changes neither the stored state nor the slot nor any wake flag; once the
\* producer view is gone every get returns the last written state, no task
\* is notified any more and a task asleep with no wake pending stays
\* asleep; and once the consumer view is gone an update that was called
\* can take its next step in every state until it returns, and stores its
\* argument whole.
C18_DropNoEffect ==
  /\ [][/\ \A p \in Producers :
             PriorDropStep(p) => UNCHANGED <<inner, task, wake, wlock, guards>>
        /\ \A t \in Tasks :
             LatterDropStep(t) => UNCHANGED <<inner, task, wake, wlock, guards>>
        /\ PriorGone =>
             /\ inner' = inner
             /\ \A t \in Tasks :
                  /\ wake'[t] => wake[t]
                  /\ ReadStep(t) => seen'[t] = Timeline[Len(Timeline)]
                  /\ (cpc[t] = "parked" /\ ~wake[t]) => cpc'[t] = "parked"
        /\ LatterGone =>
             \A p \in Producers : ReleaseStep(p) => inner = pnew[p]]_vars
  /\ [](LatterGone =>
          \A p \in Producers :
            /\ \A v \in Snapshots :
                 (ppc[p] = "idle" /\ nupd < MaxUpdates) => ENABLED UpdateCall(p, v)
            /\ ppc[p] = "write" => ENABLED WriteAcquire(p)
            /\ ppc[p] = "copy" => ENABLED (WriteField(p) \/ WriteRelease(p))
            /\ ppc[p] = "notify" => ENABLED Notify(p))

\* C18 witness: the producer has updated and dropped its view; the consumer
\* has read the updated state in its second get and sleeps with no wake
\* pending.
C18_Witness ==
  /\ PriorGone /\ nupd >= 1
  /\ cpc["A"] = "parked" /\ gotSince["A"] /\ ~wake["A"]
  /\ ngets["A"] = 2 /\ obs["A"][1].val = initial
  /\ seen["A"] = lastRet /\ lastRet /= initial /\ inner = lastRet

====
